---- MODULE Spec2Model ----
(***************************************************************************)
(* Model of packages/sdk/src/solana/programs/nft-drop.ts: the NFTDrop      *)
(* facade (lazyMint, claim/claimTo, getAll, supply counters) and the       *)
(* chains fetcher (getChains).  Every await of the source is a step of     *)
(* the model; the external collaborators (candy machine program, wallet,   *)
(* RPC node, storage, HTTP) answer nondeterministically.                   *)
(***************************************************************************)
EXTENDS Integers, Sequences, FiniteSets, TLC

\* ------------------------------------------------------------------ bounds
MaxItems == 11
MaxLoaded == 2
MaxQuantity == 3
MaxAvailable == 10
MaxConfigured == 2
MaxClaimed == 2
MaxChains == 2

\* --------------------------------------------------------------- constants
LAZY_MINT_BATCH_SIZE == 5

None == "none"
NoName == "undefined"

VARIABLES
  configLines,    \* indices of the candy machine that hold a registered item
  itemsMinted,    \* candyMachine.itemsMinted of the on-chain record
  itemsRemaining, \* candyMachine.itemsRemaining of the on-chain record
  lm,             \* lazyMint invocations: [Invocations -> record]
  ct,             \* the claim / claimTo invocation
  sup,            \* the totalUnclaimedSupply / totalClaimedSupply call
  ga,             \* the getAll call
  gc,             \* the getChains call
  gm              \* the getChainMetadata call

vars == <<configLines, itemsMinted, itemsRemaining, lm, ct, sup, ga, gc, gm>>

\* what the lazyMint steps leave alone
notLazy == <<itemsMinted, itemsRemaining, ct, sup, ga, gc, gm>>

Invocations == {1, 2}

\* candyMachine.itemsLoaded of the on-chain record
itemsLoaded == Cardinality(configLines)

MathMin(a, b) == IF a <= b THEN a ELSE b

\* ---------------------------------------------------------------- lazyMint
\* parsedMetadatas[i].name?.toString() || ""
ItemName(metadata) ==
  IF metadata.name = NoName \/ metadata.name = "" THEN "" ELSE metadata.name

\* uris.map((uri, i) => ({ name: ..., uri }))
BuildItems(parsedMetadatas, uris) ==
  [i \in 1..Len(uris) |-> [name |-> ItemName(parsedMetadatas[i]), uri |-> uris[i]]]

\* items.splice(0, LAZY_MINT_BATCH_SIZE): the removed head
SpliceHead(items) ==
  SubSeq(items, 1, MathMin(LAZY_MINT_BATCH_SIZE, Len(items)))

\* items.splice(0, LAZY_MINT_BATCH_SIZE): what is left in items
SpliceRest(items) ==
  SubSeq(items, MathMin(LAZY_MINT_BATCH_SIZE, Len(items)) + 1, Len(items))

RECURSIVE Batches(_)
\* while (items.length) { batches.push(items.splice(0, LAZY_MINT_BATCH_SIZE)) }
Batches(items) ==
  IF Len(items) = 0 THEN <<>>
  ELSE <<SpliceHead(items)>> \o Batches(SpliceRest(items))

\* the batch position added without the batch size
BatchIndex_Unscaled(i, loaded) == i + loaded

\* index: toBigNumber(i * LAZY_MINT_BATCH_SIZE + candyMachine.itemsLoaded.toNumber())
\* (i is the 0-based position of the batch)
BatchIndex(i, loaded) == i * LAZY_MINT_BATCH_SIZE + loaded

\* batches.map((batch, i) => insertItems({ items: batch, index }))
BuildTxns(batches, loaded, p) ==
  [b \in 1..Len(batches) |->
     [inv |-> p, items |-> batches[b], index |-> BatchIndex(b - 1, loaded)]]

\* the signature the node returns for a broadcast transaction
SignatureOf(tx) == <<"sig", tx.inv, tx.index>>

\* the metadata lists a caller passes: k items, named or partly unnamed
MetadataInputs ==
  { [i \in 1..k |-> [name |-> IF v = 2 /\ i % 2 = 0 THEN NoName ELSE "nft"]] :
      k \in 0..MaxItems, v \in 1..2 }

\* storage.uploadBatch: one content URI per metadata, in order
UploadBatch(p, parsedMetadatas) ==
  [i \in 1..Len(parsedMetadatas) |-> <<"ipfs", p, i>>]

IdleInvocation ==
  [pc |-> "idle", metadatas |-> <<>>, loaded |-> 0, uploaded |-> <<>>,
   batches |-> <<>>, txns |-> <<>>, signCalls |-> 0, signRequest |-> <<>>,
   signed |-> FALSE, send |-> <<>>, sendCount |-> <<>>, landed |-> <<>>,
   conf |-> <<>>, signatures |-> <<>>, confirmations |-> <<>>,
   ret |-> None, error |-> None]

\* an invocation that is never made
OffInvocation == [IdleInvocation EXCEPT !.pc = "off"]

TotalItems(p) == Len(lm[p].metadatas)

\* lazyMint(metadatas) is called; getCandyMachine() is issued (line 313)
LazyMintCall(p) ==
  /\ lm[p].pc = "idle"
  /\ \E m \in MetadataInputs :
       /\ \A q \in Invocations \ {p} : Len(m) + TotalItems(q) <= MaxItems
       /\ lm' = [lm EXCEPT ![p].pc = "getCandyMachine", ![p].metadatas = m]
  /\ UNCHANGED <<configLines, notLazy>>

\* await this.getCandyMachine() resolves; parse and uploadBatch are issued
LmGetCandyMachine(p) ==
  /\ lm[p].pc = "getCandyMachine"
  /\ lm' = [lm EXCEPT ![p].pc = "upload", ![p].loaded = itemsLoaded]
  /\ UNCHANGED <<configLines, notLazy>>

\* await storage.uploadBatch resolves; items and batches are built and
\* getLatestBlockhash() is issued (lines 317-329)
LmUploaded(p) ==
  /\ lm[p].pc = "upload"
  /\ LET items == BuildItems(lm[p].metadatas, UploadBatch(p, lm[p].metadatas))
     IN lm' = [lm EXCEPT ![p].pc = "blockhash",
                         ![p].uploaded = items,
                         ![p].batches = Batches(items)]
  /\ UNCHANGED <<configLines, notLazy>>

\* await getLatestBlockhash() resolves; the transactions are built and
\* identity().signAllTransactions(txns) is issued (lines 329-353)
LmBuildAndSign(p) ==
  /\ lm[p].pc = "blockhash"
  /\ LET txns == BuildTxns(lm[p].batches, lm[p].loaded, p)
     IN lm' = [lm EXCEPT ![p].pc = "signing",
                         ![p].txns = txns,
                         ![p].signCalls = @ + 1,
                         ![p].signRequest = txns]
  /\ UNCHANGED <<configLines, notLazy>>

\* await signAllTransactions resolves; every signed transaction is handed to
\* sendRawTransaction inside Promise.all (lines 353-360)
LmSignedAndSend(p) ==
  /\ lm[p].pc = "signing"
  /\ LET n == Len(lm[p].signRequest)
     IN lm' = [lm EXCEPT ![p].pc = "sending",
                         ![p].signed = TRUE,
                         ![p].send = [i \in 1..n |-> "pending"],
                         ![p].sendCount = [i \in 1..n |-> 1],
                         ![p].landed = [i \in 1..n |-> FALSE],
                         ![p].conf = [i \in 1..n |-> "none"]]
  /\ UNCHANGED <<configLines, notLazy>>

\* one of the awaited calls before the broadcast rejects: lazyMint rejects
LmAwaitRejects(p) ==
  /\ lm[p].pc \in {"getCandyMachine", "upload", "blockhash", "signing"}
  /\ lm' = [lm EXCEPT ![p].pc = "rejected", ![p].error = "collaborator"]
  /\ UNCHANGED <<configLines, notLazy>>

\* the node accepts broadcast i and answers with its signature
SendOk(p, i) ==
  /\ i \in 1..Len(lm[p].send)
  /\ lm[p].send[i] = "pending"
  /\ lm' = [lm EXCEPT ![p].send[i] = "ok"]
  /\ UNCHANGED <<configLines, notLazy>>

\* the node refuses broadcast i
SendFails(p, i) ==
  /\ i \in 1..Len(lm[p].send)
  /\ lm[p].send[i] = "pending"
  /\ lm' = [lm EXCEPT ![p].send[i] = "failed"]
  /\ UNCHANGED <<configLines, notLazy>>

\* the confirmations issued but never awaited: the result is returned at once
LmSendsDone_NoAwait(p) ==
  /\ lm[p].pc = "sending"
  /\ \A i \in 1..Len(lm[p].send) : lm[p].send[i] = "ok"
  /\ Len(lm[p].txns) > 0
  /\ lm' = [lm EXCEPT
       ![p].pc = "returned",
       ![p].signatures = [i \in 1..Len(lm[p].txns) |-> SignatureOf(lm[p].txns[i])],
       ![p].conf = [i \in 1..Len(lm[p].txns) |-> "waiting"],
       ![p].ret = [i \in 1..Len(lm[p].txns) |->
                     [signature |-> SignatureOf(lm[p].txns[i])]]]
  /\ UNCHANGED <<configLines, notLazy>>

\* Promise.all of the broadcasts resolves; confirmTransaction is issued for
\* every signature inside Promise.all (lines 356-367)
LmSendsDone(p) ==
  /\ lm[p].pc = "sending"
  /\ \A i \in 1..Len(lm[p].send) : lm[p].send[i] = "ok"
  /\ lm' = [lm EXCEPT
       ![p].pc = "confirming",
       ![p].signatures = [i \in 1..Len(lm[p].txns) |-> SignatureOf(lm[p].txns[i])],
       ![p].conf = [i \in 1..Len(lm[p].txns) |-> "waiting"]]
  /\ UNCHANGED <<configLines, notLazy>>

\* Promise.all of the broadcasts rejects as soon as one broadcast is refused
LmSendsRejected(p) ==
  /\ lm[p].pc = "sending"
  /\ \E i \in 1..Len(lm[p].send) : lm[p].send[i] = "failed"
  /\ lm' = [lm EXCEPT ![p].pc = "rejected", ![p].error = "collaborator"]
  /\ UNCHANGED <<configLines, notLazy>>

\* the indices an insertItems transaction writes
TxRange(tx) == tx.index .. (tx.index + Len(tx.items) - 1)

\* the candy machine program processes a broadcast insertItems transaction
TxLands(p, i) ==
  /\ i \in 1..Len(lm[p].send)
  /\ lm[p].send[i] = "ok"
  /\ ~lm[p].landed[i]
  /\ lm[p].conf[i] # "failed"
  /\ lm' = [lm EXCEPT ![p].landed[i] = TRUE]
  /\ configLines' = configLines \cup TxRange(lm[p].txns[i])
  /\ UNCHANGED notLazy

\* rpc().confirmTransaction(sig) resolves for a processed transaction
ConfirmOk(p, i) ==
  /\ i \in 1..Len(lm[p].conf)
  /\ lm[p].conf[i] = "waiting"
  /\ lm[p].landed[i]
  /\ lm' = [lm EXCEPT ![p].conf[i] = "ok"]
  /\ UNCHANGED <<configLines, notLazy>>

\* rpc().confirmTransaction(sig) rejects: the transaction expired unprocessed
ConfirmFails(p, i) ==
  /\ i \in 1..Len(lm[p].conf)
  /\ lm[p].conf[i] = "waiting"
  /\ ~lm[p].landed[i]
  /\ lm' = [lm EXCEPT ![p].conf[i] = "failed"]
  /\ UNCHANGED <<configLines, notLazy>>

\* the return without the length check on the confirmations
LmConfirmsDone_NoLengthCheck(p) ==
  /\ lm[p].pc = "confirming"
  /\ \A i \in 1..Len(lm[p].conf) : lm[p].conf[i] = "ok"
  /\ lm' = [lm EXCEPT
       ![p].pc = "returned",
       ![p].confirmations = [i \in 1..Len(lm[p].signatures) |-> "confirmed"],
       ![p].ret = [i \in 1..Len(lm[p].signatures) |->
                     [signature |-> lm[p].signatures[i]]]]
  /\ UNCHANGED <<configLines, notLazy>>

\* Promise.all of the confirmations resolves; the length check and the
\* return (lines 363-373)
LmConfirmsDone(p) ==
  /\ lm[p].pc = "confirming"
  /\ \A i \in 1..Len(lm[p].conf) : lm[p].conf[i] = "ok"
  /\ LET confirmations == [i \in 1..Len(lm[p].signatures) |-> "confirmed"]
     IN IF Len(confirmations) = 0
        THEN lm' = [lm EXCEPT ![p].pc = "threw",
                              ![p].confirmations = confirmations,
                              ![p].error = "Transaction failed"]
        ELSE lm' = [lm EXCEPT
               ![p].pc = "returned",
               ![p].confirmations = confirmations,
               ![p].ret = [i \in 1..Len(lm[p].signatures) |->
                             [signature |-> lm[p].signatures[i]]]]
  /\ UNCHANGED <<configLines, notLazy>>

\* Promise.all of the confirmations rejects as soon as one rejects
LmConfirmsRejected(p) ==
  /\ lm[p].pc = "confirming"
  /\ \E i \in 1..Len(lm[p].conf) : lm[p].conf[i] = "failed"
  /\ lm' = [lm EXCEPT ![p].pc = "rejected", ![p].error = "collaborator"]
  /\ UNCHANGED <<configLines, notLazy>>

MaxBatches == (MaxItems + LAZY_MINT_BATCH_SIZE - 1) \div LAZY_MINT_BATCH_SIZE

NextLazy ==
  \/ \E p \in Invocations : LazyMintCall(p)
  \/ \E p \in Invocations : LmGetCandyMachine(p)
  \/ \E p \in Invocations : LmUploaded(p)
  \/ \E p \in Invocations : LmBuildAndSign(p)
  \/ \E p \in Invocations : LmSignedAndSend(p)
  \/ \E p \in Invocations : LmAwaitRejects(p)
  \/ \E p \in Invocations, i \in 1..MaxBatches : SendOk(p, i)
  \/ \E p \in Invocations, i \in 1..MaxBatches : SendFails(p, i)
  \/ \E p \in Invocations : LmSendsDone(p)
  \/ \E p \in Invocations : LmSendsRejected(p)
  \/ \E p \in Invocations, i \in 1..MaxBatches : TxLands(p, i)
  \/ \E p \in Invocations, i \in 1..MaxBatches : ConfirmOk(p, i)
  \/ \E p \in Invocations, i \in 1..MaxBatches : ConfirmFails(p, i)
  \/ \E p \in Invocations : LmConfirmsDone(p)
  \/ \E p \in Invocations : LmConfirmsRejected(p)

\* the parts of the state a specification does not exercise
IdleClaim ==
  [pc |-> "idle", via |-> None, receiver |-> None, quantity |-> 0,
   assertCalls |-> 0, assertDone |-> FALSE, i |-> 0, results |-> <<>>,
   mintCalls |-> <<>>, ret |-> None, error |-> None]

IdleSupply == [pc |-> "idle", op |-> None, ret |-> None]

IdleGetAll ==
  [pc |-> "idle", items |-> <<>>, claimed |-> <<>>, slots |-> <<>>,
   ret |-> None, error |-> None]

IdleGetChains ==
  [pc |-> "idle", status |-> 0, ok |-> FALSE, body |-> None,
   cancelCalls |-> 0, jsonCalls |-> 0, ret |-> None, error |-> None]

IdleGetChainMetadata == [pc |-> "idle", chainId |-> 0, ret |-> None]

\* one lazyMint invocation against the collection
InitLazy ==
  /\ \E l \in 0..MaxLoaded : configLines = 0..(l - 1)
  /\ itemsMinted = 0 /\ itemsRemaining = 0
  /\ ct = [IdleClaim EXCEPT !.pc = "off"]
  /\ sup = [IdleSupply EXCEPT !.pc = "off"]
  /\ ga = [IdleGetAll EXCEPT !.pc = "off"]
  /\ gc = [IdleGetChains EXCEPT !.pc = "off"]
  /\ gm = [IdleGetChainMetadata EXCEPT !.pc = "off"]
  /\ lm = [p \in Invocations |-> IF p = 1 THEN IdleInvocation ELSE OffInvocation]

\* two lazyMint invocations against the same collection
InitLazyConcurrent ==
  /\ \E l \in 0..MaxLoaded : configLines = 0..(l - 1)
  /\ itemsMinted = 0 /\ itemsRemaining = 0
  /\ ct = [IdleClaim EXCEPT !.pc = "off"]
  /\ sup = [IdleSupply EXCEPT !.pc = "off"]
  /\ ga = [IdleGetAll EXCEPT !.pc = "off"]
  /\ gc = [IdleGetChains EXCEPT !.pc = "off"]
  /\ gm = [IdleGetChainMetadata EXCEPT !.pc = "off"]
  /\ lm = [p \in Invocations |-> IdleInvocation]

SpecLazy == InitLazy /\ [][NextLazy]_vars

SpecLazyConcurrent == InitLazyConcurrent /\ [][NextLazy]_vars

\* ------------------------------------------------------- lazyMint: claims
LmFinished(p) == lm[p].pc \in {"returned", "threw", "rejected"}

\* C3: once lazyMint has built its registration transactions for k uploaded
\* items with L items loaded at the start of the call, there are ceil(k/5)
\* of them, every batch but the last holds 5 items and the last 1..5, batch
\* i (0-based) starts at L + 5*i, the starting indices increase strictly,
\* and the batches laid end to end are the uploaded items in order.
C3_Batching ==
  \A p \in Invocations :
    lm[p].signCalls > 0 =>
      LET k == Len(lm[p].uploaded)
          t == lm[p].txns
      IN /\ k = Len(lm[p].metadatas)
         /\ Len(t) = (k + 4) \div 5
         /\ \A b \in 1..Len(t) :
              /\ b < Len(t) => Len(t[b].items) = 5
              /\ Len(t[b].items) >= 1 /\ Len(t[b].items) <= 5
              /\ t[b].index = lm[p].loaded + 5 * (b - 1)
         /\ \A b, c \in 1..Len(t) : b < c => t[b].index < t[c].index
         /\ \A n \in 1..k :
              /\ ((n - 1) % 5) + 1 <= Len(t[((n - 1) \div 5) + 1].items)
              /\ t[((n - 1) \div 5) + 1].items[((n - 1) % 5) + 1] = lm[p].uploaded[n]
         /\ \A n, m \in 1..k : n # m => lm[p].uploaded[n] # lm[p].uploaded[m]

\* three batches, the last one short, on a collection that had items loaded
C3_Witness ==
  \E p \in Invocations :
    /\ lm[p].signCalls > 0
    /\ lm[p].loaded > 0
    /\ Len(lm[p].txns) = 3
    /\ Len(lm[p].txns[3].items) = 1
    /\ Len(lm[p].txns[2].items) = 5

\* the parts of C4 that hold as stated, for one invocation
C4_Common(p) ==
  LET n == Len(lm[p].txns) IN
  \* one combined signing request, covering every batch transaction
  /\ lm[p].signCalls <= 1
  /\ lm[p].signCalls = 1 => lm[p].signRequest = lm[p].txns
  \* nothing is broadcast before the signing request has completed, and
  \* after it every transaction is broadcast exactly once
  /\ ~lm[p].signed => lm[p].sendCount = <<>> /\ lm[p].send = <<>>
  /\ lm[p].signed =>
       /\ lm[p].signCalls = 1
       /\ Len(lm[p].sendCount) = n
       /\ \A i \in 1..n : lm[p].sendCount[i] = 1
  \* a confirmation is only awaited for a signature a broadcast returned
  /\ \A i \in 1..Len(lm[p].conf) :
       lm[p].conf[i] # "none" => lm[p].send[i] = "ok"
  \* the return: one signature per batch, in batch order, all confirmed
  /\ lm[p].pc = "returned" =>
       /\ Len(lm[p].ret) = Len(lm[p].batches)
       /\ \A i \in 1..n :
            /\ lm[p].ret[i] = [signature |-> SignatureOf(lm[p].txns[i])]
            /\ lm[p].send[i] = "ok"
            /\ lm[p].conf[i] = "ok"

\* C4 (as amended): all batch transactions are signed by one combined
\* request, nothing is broadcast before it completes, every signed
\* transaction is broadcast exactly once, confirmation is awaited for every
\* signature once all broadcasts have succeeded (and for none if a broadcast
\* was refused), and lazyMint returns one signature per batch, in batch
\* order, only after all confirmations have completed.
C4_SignBroadcastConfirm ==
  \A p \in Invocations :
    /\ C4_Common(p)
    /\ (/\ lm[p].signed
        /\ lm[p].pc # "sending"
        /\ \A i \in 1..Len(lm[p].send) : lm[p].send[i] = "ok")
         => \A i \in 1..Len(lm[p].conf) : lm[p].conf[i] # "none"
    /\ (\E i \in 1..Len(lm[p].send) : lm[p].send[i] = "failed")
         => \A i \in 1..Len(lm[p].conf) : lm[p].conf[i] = "none"

\* lazyMint returned three signatures after three confirmations
C4_Witness ==
  \E p \in Invocations :
    /\ lm[p].pc = "returned"
    /\ Len(lm[p].ret) = 3
    /\ \A i \in 1..3 : lm[p].conf[i] = "ok"

\* C4 (as stated): as above, but confirmation is awaited for every signature
\* a broadcast returned, whatever became of the other broadcasts.
C4_Original ==
  \A p \in Invocations :
    /\ C4_Common(p)
    /\ LmFinished(p) =>
         \A i \in 1..Len(lm[p].send) :
           lm[p].send[i] = "ok" => lm[p].conf[i] # "none"

\* C5: a lazyMint whose confirmations number zero throws "Transaction
\* failed" and returns no transaction results; it returns only with at least
\* one confirmation.
C5_ZeroConfirmations ==
  \A p \in Invocations :
    /\ lm[p].pc = "returned" =>
         /\ Len(lm[p].confirmations) > 0
         /\ \E i \in 1..Len(lm[p].conf) : lm[p].conf[i] = "ok"
    /\ (LmFinished(p) /\ Len(lm[p].confirmations) = 0) =>
         /\ lm[p].pc \in {"threw", "rejected"}
         /\ lm[p].ret = None
         /\ lm[p].error # None
    /\ lm[p].pc = "threw" =>
         /\ lm[p].error = "Transaction failed"
         /\ Len(lm[p].confirmations) = 0

\* the confirmations of an empty item list resolved and lazyMint threw
C5_Witness ==
  \E p \in Invocations :
    /\ lm[p].pc = "threw"
    /\ lm[p].signed
    /\ lm[p].signatures = <<>>

\* C10: the index ranges written by the registration transactions of two
\* different lazyMint invocations are pairwise disjoint.
C10_DisjointRanges ==
  \A p, q \in Invocations :
    p # q =>
      \A i \in 1..Len(lm[p].txns), j \in 1..Len(lm[q].txns) :
        TxRange(lm[p].txns[i]) \cap TxRange(lm[q].txns[j]) = {}

\* ------------------------------------------------------- claim / claimTo
\* this.metaplex.identity().publicKey.toBase58()
IdentityAddress == "identity"

Receivers == {IdentityAddress, "walletA"}

\* addresses the candy machine program gives to minted NFTs
MintAddresses == {"nftA", "nftB"}

notClaim == <<configLines, lm, sup, ga, gc, gm>>

\* the loop test and body of claimTo, and the return after the loop
\* (lines 412-420): issue the next mint call, or map the results
ClaimLoop(c) ==
  IF c.i < c.quantity
  THEN [c EXCEPT !.pc = "minting",
                 !.mintCalls = Append(@, [status |-> "pending", address |-> None])]
  ELSE [c EXCEPT !.pc = "returned",
                 !.ret = [n \in 1..Len(c.results) |-> c.results[n].address]]

\* claimTo(receiverAddress, quantity) is called; getCandyMachine() is issued
ClaimToCall ==
  /\ ct.pc = "idle"
  /\ \E r \in Receivers, q \in 0..MaxQuantity :
       ct' = [ct EXCEPT !.pc = "getCandyMachine", !.via = "claimTo",
                        !.receiver = r, !.quantity = q]
  /\ UNCHANGED <<itemsMinted, itemsRemaining, notClaim>>

\* claim(quantity) forwards to claimTo with the connected wallet's address
ClaimCall ==
  /\ ct.pc = "idle"
  /\ \E q \in 0..MaxQuantity :
       ct' = [ct EXCEPT !.pc = "getCandyMachine", !.via = "claim",
                        !.receiver = IdentityAddress, !.quantity = q]
  /\ UNCHANGED <<itemsMinted, itemsRemaining, notClaim>>

\* assertCanClaimable issued but not awaited: the loop starts at once
CtGetCandyMachine_AssertNotAwaited ==
  /\ ct.pc = "getCandyMachine"
  /\ ct' = ClaimLoop([ct EXCEPT !.assertCalls = @ + 1])
  /\ UNCHANGED <<itemsMinted, itemsRemaining, notClaim>>

\* await getCandyMachine() resolves; assertCanClaimable(Number(quantity)) is
\* issued (lines 408-409)
CtGetCandyMachine ==
  /\ ct.pc = "getCandyMachine"
  /\ ct' = [ct EXCEPT !.pc = "asserting", !.assertCalls = @ + 1]
  /\ UNCHANGED <<itemsMinted, itemsRemaining, notClaim>>

\* await getCandyMachine() rejects
CtGetCandyMachineRejects ==
  /\ ct.pc = "getCandyMachine"
  /\ ct' = [ct EXCEPT !.pc = "rejected", !.error = "candyMachine"]
  /\ UNCHANGED <<itemsMinted, itemsRemaining, notClaim>>

\* every mint call issued at once instead of one after the other
CtAssertPasses_Parallel ==
  /\ ct.pc = "asserting"
  /\ ct' = [ct EXCEPT
       !.pc = IF ct.quantity > 0 THEN "minting" ELSE "returned",
       !.assertDone = TRUE,
       !.ret = IF ct.quantity > 0 THEN None ELSE <<>>,
       !.mintCalls = [n \in 1..ct.quantity |-> [status |-> "pending", address |-> None]]]
  /\ UNCHANGED <<itemsMinted, itemsRemaining, notClaim>>

\* await assertCanClaimable resolves; the loop starts (lines 409-412)
CtAssertPasses ==
  /\ ct.pc = "asserting"
  /\ ct' = ClaimLoop([ct EXCEPT !.assertDone = TRUE])
  /\ UNCHANGED <<itemsMinted, itemsRemaining, notClaim>>

\* await assertCanClaimable rejects: claimTo rejects
CtAssertRejects ==
  /\ ct.pc = "asserting"
  /\ ct' = [ct EXCEPT !.pc = "rejected", !.error = "assert"]
  /\ UNCHANGED <<itemsMinted, itemsRemaining, notClaim>>

\* the position of the mint call in flight
PendingMint == CHOOSE k \in 1..Len(ct.mintCalls) : ct.mintCalls[k].status = "pending"

\* await candyMachines().mint(...).run() resolves: the program minted one
\* item; the result is pushed and the loop goes on (lines 413-419)
MintResolves ==
  /\ ct.pc = "minting"
  /\ \E k \in 1..Len(ct.mintCalls) : ct.mintCalls[k].status = "pending"
  /\ itemsRemaining > 0
  /\ \E a \in MintAddresses :
       ct' = ClaimLoop([ct EXCEPT
               !.mintCalls[PendingMint] = [status |-> "ok", address |-> a],
               !.results = Append(@, [address |-> a]),
               !.i = @ + 1])
  /\ itemsMinted' = itemsMinted + 1
  /\ itemsRemaining' = itemsRemaining - 1
  /\ UNCHANGED notClaim

\* a failed mint call swallowed and issued again
MintRejects_Retry ==
  /\ ct.pc = "minting"
  /\ \E k \in 1..Len(ct.mintCalls) : ct.mintCalls[k].status = "pending"
  /\ Len(ct.mintCalls) <= MaxQuantity
  /\ ct' = [ct EXCEPT
       !.mintCalls = Append([@ EXCEPT ![PendingMint].status = "failed"],
                            [status |-> "pending", address |-> None])]
  /\ UNCHANGED <<itemsMinted, itemsRemaining, notClaim>>

\* await candyMachines().mint(...).run() rejects: claimTo rejects
MintRejects ==
  /\ ct.pc = "minting"
  /\ \E k \in 1..Len(ct.mintCalls) : ct.mintCalls[k].status = "pending"
  /\ ct' = [ct EXCEPT !.pc = "rejected", !.error = "mint",
                      !.mintCalls[PendingMint].status = "failed"]
  /\ UNCHANGED <<itemsMinted, itemsRemaining, notClaim>>

\* -------------------------------- totalUnclaimedSupply / totalClaimedSupply
notSupply == <<lm, ct, ga, gc, gm>>

\* the collection record findByAddress returns
CandyMachineRecord ==
  [itemsLoaded |-> itemsLoaded, itemsRemaining |-> itemsRemaining,
   itemsMinted |-> itemsMinted]

\* the loaded count returned without the comparison
UnclaimedSupply_LoadedOnly(info) == info.itemsLoaded

\* Math.min(info.itemsLoaded.toNumber(), info.itemsRemaining.toNumber())
UnclaimedSupply(info) == MathMin(info.itemsLoaded, info.itemsRemaining)

\* info.itemsMinted.toNumber()
ClaimedSupply(info) == info.itemsMinted

\* totalUnclaimedSupply() is called; getCandyMachine() is issued
TotalUnclaimedSupplyCall ==
  /\ sup.pc \in {"idle", "returned", "rejected"}
  /\ sup' = [pc |-> "reading", op |-> "totalUnclaimedSupply", ret |-> None]
  /\ UNCHANGED <<configLines, itemsMinted, itemsRemaining, notSupply>>

\* totalClaimedSupply() is called; getCandyMachine() is issued
TotalClaimedSupplyCall ==
  /\ sup.pc \in {"idle", "returned", "rejected"}
  /\ sup' = [pc |-> "reading", op |-> "totalClaimedSupply", ret |-> None]
  /\ UNCHANGED <<configLines, itemsMinted, itemsRemaining, notSupply>>

\* await getCandyMachine() resolves with the record; the counter is returned
SupplyReturns ==
  /\ sup.pc = "reading"
  /\ sup' = [sup EXCEPT
       !.pc = "returned",
       !.ret = IF sup.op = "totalUnclaimedSupply"
               THEN UnclaimedSupply(CandyMachineRecord)
               ELSE ClaimedSupply(CandyMachineRecord)]
  /\ UNCHANGED <<configLines, itemsMinted, itemsRemaining, notSupply>>

\* await getCandyMachine() rejects
SupplyRejects ==
  /\ sup.pc = "reading"
  /\ sup' = [sup EXCEPT !.pc = "rejected"]
  /\ UNCHANGED <<configLines, itemsMinted, itemsRemaining, notSupply>>

NextDrop ==
  \/ ClaimToCall
  \/ ClaimCall
  \/ CtGetCandyMachine
  \/ CtGetCandyMachineRejects
  \/ CtAssertPasses
  \/ CtAssertRejects
  \/ MintResolves
  \/ MintRejects
  \/ TotalUnclaimedSupplyCall
  \/ TotalClaimedSupplyCall
  \/ SupplyReturns
  \/ SupplyRejects

\* a collection of MaxAvailable items, some loaded, some minted
InitDrop ==
  /\ \E l \in 0..MaxAvailable : configLines = 0..(l - 1)
  /\ \E m \in 0..MaxAvailable :
       itemsMinted = m /\ itemsRemaining = MaxAvailable - m
  /\ lm = [p \in Invocations |-> OffInvocation]
  /\ ct = IdleClaim /\ sup = IdleSupply
  /\ ga = [IdleGetAll EXCEPT !.pc = "off"]
  /\ gc = [IdleGetChains EXCEPT !.pc = "off"]
  /\ gm = [IdleGetChainMetadata EXCEPT !.pc = "off"]

SpecDrop == InitDrop /\ [][NextDrop]_vars

\* ------------------------------------------------ claim / claimTo: claims
MintsPending == {k \in 1..Len(ct.mintCalls) : ct.mintCalls[k].status = "pending"}

\* C1: claimTo never has two mint calls in flight, a mint call is issued
\* only when all earlier ones have completed, and when it returns (the
\* assertion passed, every mint succeeded) it has issued exactly quantity
\* mint calls and returns quantity addresses, the i-th being the result of
\* the i-th mint call.
C1_SequentialClaims ==
  /\ Cardinality(MintsPending) <= 1
  /\ \A k \in 1..Len(ct.mintCalls) :
       k < Len(ct.mintCalls) => ct.mintCalls[k].status = "ok"
  /\ Len(ct.mintCalls) <= ct.quantity
  /\ ct.pc = "returned" =>
       /\ ct.assertDone
       /\ Len(ct.mintCalls) = ct.quantity
       /\ Len(ct.ret) = ct.quantity
       /\ \A k \in 1..ct.quantity :
            /\ ct.mintCalls[k].status = "ok"
            /\ ct.ret[k] = ct.mintCalls[k].address

\* three claims returned, with different addresses in call order
C1_Witness ==
  /\ ct.pc = "returned"
  /\ ct.quantity = 3
  /\ ct.ret[1] # ct.ret[2]
  /\ ct.ret[2] # ct.ret[3]

\* C2: the assertion has completed before the first mint call is issued; if
\* it fails claimTo rejects with no mint call issued; claim forwards to
\* claimTo with the connected wallet as receiver.
C2_AssertBeforeMint ==
  /\ ct.mintCalls # <<>> => ct.assertDone /\ ct.assertCalls = 1
  /\ ct.assertDone => ct.assertCalls = 1
  /\ ct.error = "assert" =>
       /\ ct.pc = "rejected"
       /\ ct.mintCalls = <<>>
       /\ ct.ret = None
       /\ ~ct.assertDone
  /\ ct.via = "claim" => ct.receiver = IdentityAddress

\* claim(2) rejected by the assertion
C2_Witness ==
  /\ ct.via = "claim"
  /\ ct.quantity = 2
  /\ ct.pc = "rejected"
  /\ ct.error = "assert"

\* C6: when the k-th mint call fails claimTo rejects, exactly k mint calls
\* were issued (no retry, none after it), and nothing is returned for the
\* k-1 claims that succeeded.
C6_MintFailure ==
  /\ \A k \in 1..Len(ct.mintCalls) :
       ct.mintCalls[k].status = "failed" =>
         /\ k = Len(ct.mintCalls)
         /\ ct.pc = "rejected"
         /\ ct.error = "mint"
  /\ (ct.pc = "rejected" /\ ct.error = "mint") =>
       LET k == Len(ct.mintCalls) IN
       /\ k >= 1 /\ k <= ct.quantity
       /\ ct.mintCalls[k].status = "failed"
       /\ \A j \in 1..(k - 1) : ct.mintCalls[j].status = "ok"
       /\ Len(ct.results) = k - 1
       /\ ct.ret = None

\* the second of three mint calls failed after the first succeeded
C6_Witness ==
  /\ ct.pc = "rejected"
  /\ ct.error = "mint"
  /\ ct.quantity = 3
  /\ Len(ct.mintCalls) = 2
  /\ ct.mintCalls[1].status = "ok"

\* ------------------------------------------------- supply counters: claims
\* C9: a totalUnclaimedSupply call returns min(itemsLoaded, itemsRemaining)
\* and a totalClaimedSupply call returns itemsMinted of the record it read,
\* and no step of either call changes the collection.
C9_SupplyCounters ==
  [][ /\ (sup.pc = "reading" /\ sup'.pc = "returned") =>
           /\ sup.op = "totalUnclaimedSupply" =>
                sup'.ret = IF itemsLoaded <= itemsRemaining
                           THEN itemsLoaded ELSE itemsRemaining
           /\ sup.op = "totalClaimedSupply" => sup'.ret = itemsMinted
      /\ sup' # sup =>
           UNCHANGED <<configLines, itemsMinted, itemsRemaining>> ]_vars

\* the fixture: itemsLoaded = 10, itemsRemaining = 3, itemsMinted = 7
C9_Witness ==
  /\ sup.pc = "returned"
  /\ sup.op = "totalUnclaimedSupply"
  /\ itemsLoaded = 10 /\ itemsRemaining = 3 /\ itemsMinted = 7
  /\ sup.ret = 3

\* ------------------------------------------------------------------ getAll
notGetAll == <<configLines, itemsMinted, itemsRemaining, lm, ct, sup, gc, gm>>

\* PublicKey.default.toBase58()
DefaultPublicKey == "11111111111111111111111111111111"

ItemNames == {"n1", "n2"}
ItemUris == {"u1", "u2"}

\* info.items: what the candy machine answers
ItemLists ==
  UNION { [1..n -> [name : ItemNames, uri : ItemUris]] : n \in 0..MaxConfigured }

\* what getAllClaimed() answers: minted NFTs, each with its own mint address
ClaimedLists ==
  UNION { { [k \in 1..n |->
              [metadata |-> [name |-> f[k].name, id |-> <<"mint", k>>, uri |-> f[k].uri],
               owner |-> "walletA", supply |-> 1, type |-> "metaplex"]] :
            f \in [1..n -> [name : ItemNames, uri : ItemUris]] } :
          n \in 0..MaxClaimed }

\* the JSON documents storage may hold behind an item URI
StoredJson ==
  { [name |-> "stored", id |-> "storedId", uri |-> "storedUri"],
    [name |-> "stored", id |-> None, uri |-> None] }

\* the predicate of claimed.find compared on the name alone
IsClaimedBy_NameOnly(nft, item) == nft.metadata.name = item.name

\* nft.metadata.name === item.name && nft.metadata.uri === item.uri
IsClaimedBy(nft, item) ==
  nft.metadata.name = item.name /\ nft.metadata.uri = item.uri

\* claimed.find(...): the first claimed NFT that matches, or undefined
FindClaimed(claimed, item) ==
  IF \E k \in 1..Len(claimed) : IsClaimedBy(claimed[k], item)
  THEN claimed[CHOOSE k \in 1..Len(claimed) :
                 /\ IsClaimedBy(claimed[k], item)
                 /\ \A j \in 1..(k - 1) : ~IsClaimedBy(claimed[j], item)]
  ELSE None

\* { metadata: { ...metadata, id: default, uri: item.uri }, owner: default,
\*   supply: 0, type: "metaplex" }
UnclaimedNFT(metadata, item) ==
  [metadata |-> [metadata EXCEPT !.id = DefaultPublicKey, !.uri = item.uri],
   owner |-> DefaultPublicKey, supply |-> 0, type |-> "metaplex"]

\* getAll() is called; getCandyMachine() is issued
GetAllCall ==
  /\ ga.pc = "idle"
  /\ ga' = [ga EXCEPT !.pc = "getCandyMachine"]
  /\ UNCHANGED notGetAll

\* await getCandyMachine() resolves; getAllClaimed() is issued
GaGetCandyMachine ==
  /\ ga.pc = "getCandyMachine"
  /\ \E items \in ItemLists :
       ga' = [ga EXCEPT !.pc = "getAllClaimed", !.items = items]
  /\ UNCHANGED notGetAll

\* await getAllClaimed() resolves; info.items.map runs every callback up to
\* its first await: a claimed item is settled, an unclaimed one has its
\* downloadJSON issued (lines 142-155)
GaGetAllClaimed ==
  /\ ga.pc = "getAllClaimed"
  /\ \E claimed \in ClaimedLists :
       ga' = [ga EXCEPT
         !.pc = "mapping",
         !.claimed = claimed,
         !.slots = [i \in 1..Len(ga.items) |->
            IF \E k \in 1..Len(claimed) : IsClaimedBy(claimed[k], ga.items[i])
            THEN [state |-> "done", nft |-> FindClaimed(claimed, ga.items[i])]
            ELSE [state |-> "pending", nft |-> None]]]
  /\ UNCHANGED notGetAll

\* getCandyMachine() or getAllClaimed() rejects
GaAwaitRejects ==
  /\ ga.pc \in {"getCandyMachine", "getAllClaimed"}
  /\ ga' = [ga EXCEPT !.pc = "rejected", !.error = "collaborator"]
  /\ UNCHANGED notGetAll

\* await storage.downloadJSON(item.uri) resolves for item i
GaDownloadResolves(i) ==
  /\ i \in 1..Len(ga.slots)
  /\ ga.slots[i].state = "pending"
  /\ \E metadata \in StoredJson :
       ga' = [ga EXCEPT !.slots[i] =
                [state |-> "done", nft |-> UnclaimedNFT(metadata, ga.items[i])]]
  /\ UNCHANGED notGetAll

\* await storage.downloadJSON(item.uri) rejects for item i
GaDownloadRejects(i) ==
  /\ i \in 1..Len(ga.slots)
  /\ ga.slots[i].state = "pending"
  /\ ga' = [ga EXCEPT !.slots[i] = [state |-> "failed", nft |-> None]]
  /\ UNCHANGED notGetAll

\* Promise.all of the callbacks resolves: getAll returns, in item order
GaReturns ==
  /\ ga.pc = "mapping"
  /\ \A i \in 1..Len(ga.slots) : ga.slots[i].state = "done"
  /\ ga' = [ga EXCEPT !.pc = "returned",
                      !.ret = [i \in 1..Len(ga.slots) |-> ga.slots[i].nft]]
  /\ UNCHANGED notGetAll

\* Promise.all of the callbacks rejects as soon as one download rejects
GaRejects ==
  /\ ga.pc = "mapping"
  /\ \E i \in 1..Len(ga.slots) : ga.slots[i].state = "failed"
  /\ ga' = [ga EXCEPT !.pc = "rejected", !.error = "collaborator"]
  /\ UNCHANGED notGetAll

NextGetAll ==
  \/ GetAllCall
  \/ GaGetCandyMachine
  \/ GaGetAllClaimed
  \/ GaAwaitRejects
  \/ \E i \in 1..MaxConfigured : GaDownloadResolves(i)
  \/ \E i \in 1..MaxConfigured : GaDownloadRejects(i)
  \/ GaReturns
  \/ GaRejects

InitGetAll ==
  /\ configLines = {} /\ itemsMinted = 0 /\ itemsRemaining = 0
  /\ lm = [p \in Invocations |-> OffInvocation]
  /\ ct = [IdleClaim EXCEPT !.pc = "off"]
  /\ sup = [IdleSupply EXCEPT !.pc = "off"]
  /\ ga = IdleGetAll
  /\ gc = [IdleGetChains EXCEPT !.pc = "off"]
  /\ gm = [IdleGetChainMetadata EXCEPT !.pc = "off"]

SpecGetAll == InitGetAll /\ [][NextGetAll]_vars

\* C7: getAll returns one entry per configured item, in item order: the
\* claimed record for an item whose name and URI both equal those of a
\* claimed NFT, and otherwise an unclaimed record with supply 0, the default
\* public key as owner and id, and the item's URI.
C7_GetAll ==
  ga.pc = "returned" =>
    /\ Len(ga.ret) = Len(ga.items)
    /\ \A i \in 1..Len(ga.items) :
         LET item == ga.items[i]
             matches == {k \in 1..Len(ga.claimed) :
                           /\ ga.claimed[k].metadata.name = item.name
                           /\ ga.claimed[k].metadata.uri = item.uri}
         IN IF matches # {}
            THEN \E k \in matches : ga.ret[i] = ga.claimed[k]
            ELSE /\ ga.ret[i].supply = 0
                 /\ ga.ret[i].owner = DefaultPublicKey
                 /\ ga.ret[i].metadata.id = DefaultPublicKey
                 /\ ga.ret[i].metadata.uri = item.uri

\* two items returned: the first unclaimed although a claimed NFT has its
\* name, the second claimed
C7_Witness ==
  /\ ga.pc = "returned"
  /\ Len(ga.ret) = 2
  /\ ga.ret[1].supply = 0
  /\ ga.ret[2].supply = 1
  /\ \E k \in 1..Len(ga.claimed) :
       /\ ga.claimed[k].metadata.name = ga.items[1].name
       /\ ga.claimed[k].metadata.uri # ga.items[1].uri

\* --------------------------------------------------------------- getChains
notGetChains == <<configLines, itemsMinted, itemsRemaining, lm, ct, sup, ga, gm>>

notGetChainMetadata == <<configLines, itemsMinted, itemsRemaining, lm, ct, sup, ga, gc>>

\* HTTP statuses the chains API may answer with
Statuses == {200, 201, 304, 404, 500}

ChainIds == {1, 10, 8453}

\* the data field of the JSON payload
ChainLists == UNION { [1..n -> ChainIds] : n \in 0..MaxChains }

\* Response.ok: the status is in the range 200-299
ResponseOk(status) == status >= 200 /\ status <= 299

\* getChains() is called; fetch is issued
GetChainsCall ==
  /\ gc.pc = "idle"
  /\ gc' = [gc EXCEPT !.pc = "fetching"]
  /\ UNCHANGED notGetChains

\* the failure branch without draining the body
GcFetchResolves_NoCancel ==
  /\ gc.pc = "fetching"
  /\ \E status \in Statuses, body \in {"null", "stream"} :
       IF ~ResponseOk(status)
       THEN gc' = [gc EXCEPT !.pc = "threw", !.status = status, !.ok = FALSE,
                             !.body = body, !.error = "Failed to fetch chains"]
       ELSE gc' = [gc EXCEPT !.pc = "parsing", !.status = status, !.ok = TRUE,
                             !.body = body, !.jsonCalls = @ + 1]
  /\ UNCHANGED notGetChains

\* await fetch resolves with a response; on a non-OK status the body, if
\* any, is cancelled and the error thrown, otherwise response.json() is
\* issued (lines 475-484)
GcFetchResolves ==
  /\ gc.pc = "fetching"
  /\ \E status \in Statuses, body \in {"null", "stream"} :
       IF ~ResponseOk(status)
       THEN gc' = [gc EXCEPT
              !.pc = "threw", !.status = status, !.ok = FALSE, !.body = body,
              !.cancelCalls = IF body = "null" THEN @ ELSE @ + 1,
              !.error = "Failed to fetch chains"]
       ELSE gc' = [gc EXCEPT !.pc = "parsing", !.status = status, !.ok = TRUE,
                             !.body = body, !.jsonCalls = @ + 1]
  /\ UNCHANGED notGetChains

\* await fetch rejects (no response)
GcFetchRejects ==
  /\ gc.pc = "fetching"
  /\ gc' = [gc EXCEPT !.pc = "rejected", !.error = "network"]
  /\ UNCHANGED notGetChains

\* await response.json() resolves; its data field is returned
GcJsonResolves ==
  /\ gc.pc = "parsing"
  /\ gc.body = "stream"
  /\ \E data \in ChainLists : gc' = [gc EXCEPT !.pc = "returned", !.ret = data]
  /\ UNCHANGED notGetChains

\* await response.json() rejects: no body, or not JSON
GcJsonRejects ==
  /\ gc.pc = "parsing"
  /\ gc' = [gc EXCEPT !.pc = "rejected", !.error = "json"]
  /\ UNCHANGED notGetChains

\* the keys of chainMetaRecord
ChainMetaKeys == {660279, 8453, 10, 252, 7777777, 34443, 7560, 690}

\* the gasSponsored and verified fields of chainMetaRecord[chainId]
ChainMetaRecord(chainId) ==
  [gasSponsored |-> IF chainId = 660279 THEN None ELSE TRUE,
   verified |-> IF chainId \in {660279, 8453} THEN TRUE ELSE None]

\* getChainMetadata(chainId): the overlay of a known chain, or null
GetChainMetadata ==
  /\ gm.pc \in {"idle", "returned"}
  /\ \E chainId \in {660279, 8453, 10, 999999} :
       gm' = [pc |-> "returned", chainId |-> chainId,
              ret |-> IF chainId \in ChainMetaKeys
                      THEN ChainMetaRecord(chainId) ELSE "null"]
  /\ UNCHANGED notGetChainMetadata

NextChains ==
  \/ GetChainMetadata
  \/ GetChainsCall
  \/ GcFetchResolves
  \/ GcFetchRejects
  \/ GcJsonResolves
  \/ GcJsonRejects

InitChains ==
  /\ configLines = {} /\ itemsMinted = 0 /\ itemsRemaining = 0
  /\ lm = [p \in Invocations |-> OffInvocation]
  /\ ct = [IdleClaim EXCEPT !.pc = "off"]
  /\ sup = [IdleSupply EXCEPT !.pc = "off"]
  /\ ga = [IdleGetAll EXCEPT !.pc = "off"]
  /\ gc = IdleGetChains
  /\ gm = IdleGetChainMetadata

SpecChains == InitChains /\ [][NextChains]_vars

GcResponded == gc.pc \in {"threw", "parsing", "returned"} \/ gc.error = "json"

\* the parts of C8 that hold as stated
C8_Common ==
  /\ (GcResponded /\ ~ResponseOk(gc.status)) =>
       /\ gc.pc = "threw"
       /\ gc.error = "Failed to fetch chains"
       /\ gc.jsonCalls = 0
       /\ gc.ret = None
  /\ (GcResponded /\ ResponseOk(gc.status)) =>
       /\ gc.cancelCalls = 0
       /\ gc.pc # "threw"
       /\ gc.jsonCalls = 1

\* C8 (as amended): on a non-OK status getChains raises an error, never
\* parses the body as JSON, and cancels the body exactly once when the
\* response has one (a response with a null body is not cancelled); on an OK
\* status the body is never cancelled.
C8_FailedFetch ==
  /\ C8_Common
  /\ (GcResponded /\ ~ResponseOk(gc.status)) =>
       gc.cancelCalls = IF gc.body = "stream" THEN 1 ELSE 0

\* a 404 with a body: thrown after one cancel
C8_Witness ==
  /\ gc.pc = "threw"
  /\ gc.status = 404
  /\ gc.body = "stream"
  /\ gc.cancelCalls = 1

\* C8 (as stated): on a non-OK status the body is cancelled exactly once.
C8_Original ==
  /\ C8_Common
  /\ (GcResponded /\ ~ResponseOk(gc.status)) => gc.cancelCalls = 1
====
